---- MODULE Spec2Model ----
(***************************************************************************)
(* ASCII oscilloscope (src/main.py): voltage -> row mapping, the scrolling *)
(* history buffer, the frame renderer and the main loop.                   *)
(*                                                                         *)
(* Rows, columns and loop indices are 0-based as in the source; TLA+       *)
(* sequences are 1-based, so a source index k is the sequence index k+1.   *)
(* Voltages are exact rationals: an integer number of ticks, a tick being  *)
(* half a row of the display scale, so that VREF_DISPLAY (VREF_VOLTS       *)
(* volts) is 2*(H-1) ticks.  The simulated signal's sines are not          *)
(* computed: the raw value fed to the clamp of read_voltage is drawn from  *)
(* RawSignals, and the time variable t, which only feeds the sines, is     *)
(* left out.                                                               *)
(***************************************************************************)
EXTENDS Integers, Sequences, FiniteSets

\* ---- bounds: scaled-down plot area and input ranges ----
W == 3
H == 6
RawSlack == 3
LenSlack == 1

\* ---- settings ----
LEFT_MARGIN == 7
DRAW_GRID == TRUE
VREF_VOLTS == 5
VREF_DISPLAY == 2 * (H - 1)

VARIABLES pc, v, y, last, y_hist, r, line, lines, i, prev_y, out, pushed, drawn

vars == <<pc, v, y, last, y_hist, r, line, lines, i, prev_y, out, pushed, drawn>>

\* ---- arithmetic helpers ----
Min(a, b) == IF a < b THEN a ELSE b
Max(a, b) == IF a > b THEN a ELSE b

\* round(p/q) for q > 0, ties to the even integer
RoundHalfEven(p, q) ==
    LET f == p \div q
        rem == p - f * q
    IN  IF 2 * rem < q THEN f
        ELSE IF 2 * rem > q THEN f + 1
        ELSE IF f % 2 = 0 THEN f ELSE f + 1

\* ---- text formatting ----
Digit(d) == <<"0", "1", "2", "3", "4", "5", "6", "7", "8", "9">>[d + 1]

RECURSIVE IntDigits(_)
IntDigits(n) == IF n < 10 THEN <<Digit(n)>> ELSE Append(IntDigits(n \div 10), Digit(n % 10))

RECURSIVE PadLeft(_, _)
PadLeft(s, width) == IF Len(s) >= width THEN s ELSE PadLeft(<<" ">> \o s, width)

\* f"{x:>4.1f}" for a non-negative x given in ticks
FormatF1(ticks) ==
    LET tenths == RoundHalfEven(10 * VREF_VOLTS * ticks, VREF_DISPLAY)
    IN  PadLeft(IntDigits(tenths \div 10) \o <<".">> \o <<Digit(tenths % 10)>>, 4)

Label(ticks) == FormatF1(ticks) \o <<"|">>

\* ---- signal read -> voltage ----
RawSignals == (0 - RawSlack) .. (VREF_DISPLAY + RawSlack)

read_voltage(raw) == Max(0, Min(VREF_DISPLAY, raw))

\* ---- voltage -> row ----
v_to_row_noclamp(vv) == RoundHalfEven((VREF_DISPLAY - vv) * (H - 1), VREF_DISPLAY)

v_to_row_noinvert(vv) ==
    LET y0 == RoundHalfEven(vv * (H - 1), VREF_DISPLAY)
    IN  IF y0 < 0 THEN 0 ELSE IF y0 > H - 1 THEN H - 1 ELSE y0

v_to_row(vv) ==
    LET y0 == RoundHalfEven((VREF_DISPLAY - vv) * (H - 1), VREF_DISPLAY)
    IN  IF y0 < 0 THEN 0 ELSE IF y0 > H - 1 THEN H - 1 ELSE y0

\* ---- history buffer ----
InitHistory == [k \in 1..W |-> H \div 2]

push_sample_nopop(hist, row) == Append(hist, row)

push_sample_front(hist, row) == <<row>> \o SubSeq(hist, 1, Len(hist) - 1)

push_sample(hist, row) == Append(Tail(hist), row)

\* ---- canvas rows ----
BlankLine == [c \in 1..(LEFT_MARGIN + W) |-> " "]

\* line[0:len(lab)] = list(lab)
SliceAssign_insert(ln, lab) == lab \o ln

SliceAssign(ln, lab) == lab \o SubSeq(ln, Min(Len(lab), Len(ln)) + 1, Len(ln))

DecorateRow(row) ==
    LET bar_x == LEFT_MARGIN - 1
    IN  IF row = 0 THEN SliceAssign(BlankLine, Label(VREF_DISPLAY))
        ELSE IF row = H \div 2 THEN SliceAssign(BlankLine, Label(VREF_DISPLAY \div 2))
        ELSE IF row = H - 1 THEN SliceAssign(BlankLine, Label(0))
        ELSE IF 0 <= bar_x /\ bar_x < LEFT_MARGIN + W
             THEN [BlankLine EXCEPT ![bar_x + 1] = "|"]
             ELSE BlankLine

GridRow_frommargin(row, ln) ==
    LET rule == IF row = 0 \/ row = H - 1
                THEN [c \in 1..Len(ln) |-> "-"]
                ELSE ln
    IN  IF row = H \div 2
        THEN [c \in 1..Len(rule) |-> IF rule[c] = " " THEN "." ELSE rule[c]]
        ELSE rule

GridRow(row, ln) ==
    IF ~DRAW_GRID THEN ln
    ELSE
    LET rule == IF row = 0 \/ row = H - 1
                THEN [c \in 1..Len(ln) |->
                        IF LEFT_MARGIN <= c - 1 /\ c - 1 < LEFT_MARGIN + W THEN "-" ELSE ln[c]]
                ELSE ln
    IN  IF row = H \div 2
        THEN [c \in 1..Len(rule) |->
                IF LEFT_MARGIN <= c - 1 /\ c - 1 < LEFT_MARGIN + W /\ rule[c] = " "
                THEN "." ELSE rule[c]]
        ELSE rule

\* ---- trace ----
\* the values of range(a, b, step) for step = 1 or -1
PyRange(a, b, step) ==
    IF step > 0 THEN {k \in a..(b - 1) : TRUE} ELSE {k \in (b + 1)..a : TRUE}

\* list index k on a list of length n: negative indices count from the end
PyIndexOk(k, n) == 0 - n <= k /\ k < n
PyIndex(k, n) == IF k < 0 THEN n + k ELSE k

SetCell(g, row, col, ch) == [g EXCEPT ![row + 1][col + 1] = ch]

\* one iteration of the plotting loop; ok = FALSE is an IndexError
PlotStep_blankonly(g, idx, yv, prev) ==
    LET x == LEFT_MARGIN + idx
    IN  IF ~(0 <= yv /\ yv < H) THEN [ok |-> TRUE, g |-> g]
        ELSE IF ~PyIndexOk(x, Len(g[yv + 1])) THEN [ok |-> FALSE, g |-> g]
        ELSE [ok |-> TRUE,
              g |-> IF g[yv + 1][x + 1] = " " THEN SetCell(g, yv, x, "*") ELSE g]

PlotStep_downonly(g, idx, yv, prev) ==
    LET x == LEFT_MARGIN + idx
    IN  IF ~(0 <= yv /\ yv < H) THEN [ok |-> TRUE, g |-> g]
        ELSE IF ~PyIndexOk(x, Len(g[yv + 1])) THEN [ok |-> FALSE, g |-> g]
        ELSE
        LET g1 == SetCell(g, yv, x, "*")
        IN  IF prev # <<>> /\ x - 1 >= LEFT_MARGIN
            THEN LET rows == PyRange(prev[1], yv, 1)
                 IN  IF \E k \in rows : ~PyIndexOk(k, Len(g1))
                     THEN [ok |-> FALSE, g |-> g]
                     ELSE [ok |-> TRUE,
                           g |-> [rr \in 1..Len(g1) |->
                                    IF \E k \in rows : PyIndex(k, Len(g1)) = rr - 1
                                    THEN [g1[rr] EXCEPT ![x] = "*"]
                                    ELSE g1[rr]]]
            ELSE [ok |-> TRUE, g |-> g1]

PlotStep_samecol(g, idx, yv, prev) ==
    LET x == LEFT_MARGIN + idx
    IN  IF ~(0 <= yv /\ yv < H) THEN [ok |-> TRUE, g |-> g]
        ELSE IF ~PyIndexOk(x, Len(g[yv + 1])) THEN [ok |-> FALSE, g |-> g]
        ELSE
        LET g1 == SetCell(g, yv, x, "*")
        IN  IF prev # <<>> /\ x - 1 >= LEFT_MARGIN
            THEN LET dy == yv - prev[1]
                     step == IF dy > 0 THEN 1 ELSE -1
                     rows == PyRange(prev[1], yv, step)
                 IN  IF \E k \in rows : ~PyIndexOk(k, Len(g1))
                     THEN [ok |-> FALSE, g |-> g]
                     ELSE [ok |-> TRUE,
                           g |-> [rr \in 1..Len(g1) |->
                                    IF \E k \in rows : PyIndex(k, Len(g1)) = rr - 1
                                    THEN [g1[rr] EXCEPT ![x + 1] = "*"]
                                    ELSE g1[rr]]]
            ELSE [ok |-> TRUE, g |-> g1]

PlotStep_nocheck(g, idx, yv, prev) ==
    LET x == LEFT_MARGIN + idx
    IN  IF ~(0 <= yv /\ yv < H) \/ ~PyIndexOk(x, Len(g[yv + 1]))
        THEN [ok |-> TRUE, g |-> g]
        ELSE [ok |-> TRUE, g |-> SetCell(g, yv, x, "*")]

PlotStep(g, idx, yv, prev) ==
    LET x == LEFT_MARGIN + idx
    IN  IF ~(0 <= yv /\ yv < H) THEN [ok |-> TRUE, g |-> g]
        ELSE IF ~PyIndexOk(x, Len(g[yv + 1])) THEN [ok |-> FALSE, g |-> g]
        ELSE
        LET g1 == SetCell(g, yv, x, "*")
        IN  IF prev # <<>> /\ x - 1 >= LEFT_MARGIN
            THEN LET dy == yv - prev[1]
                     step == IF dy > 0 THEN 1 ELSE -1
                     rows == PyRange(prev[1], yv, step)
                 IN  IF \E k \in rows : ~PyIndexOk(k, Len(g1))
                     THEN [ok |-> FALSE, g |-> g]
                     ELSE [ok |-> TRUE,
                           g |-> [rr \in 1..Len(g1) |->
                                    IF \E k \in rows : PyIndex(k, Len(g1)) = rr - 1
                                    THEN [g1[rr] EXCEPT ![x] = "*"]
                                    ELSE g1[rr]]]
            ELSE [ok |-> TRUE, g |-> g1]

\* "\n".join("".join(row) for row in lines) + "\n"
RECURSIVE JoinRows(_)
JoinRows(g) == IF g = <<>> THEN <<>> ELSE Head(g) \o <<"\n">> \o JoinRows(Tail(g))

\* ---- main loop ----
ReadVoltage ==
    /\ pc = "read"
    /\ \E raw \in RawSignals : v' = read_voltage(raw)
    /\ pc' = "map"
    /\ UNCHANGED <<y, last, y_hist, r, line, lines, i, prev_y, out, pushed, drawn>>

MapRow ==
    /\ pc = "map"
    /\ y' = v_to_row(v)
    /\ pc' = "push"
    /\ UNCHANGED <<v, last, y_hist, r, line, lines, i, prev_y, out, pushed, drawn>>

PushSample ==
    /\ pc = "push"
    /\ y_hist' = push_sample(y_hist, y)
    /\ pushed' = IF Len(pushed) < W THEN Append(pushed, y) ELSE Append(Tail(pushed), y)
    /\ pc' = "draw"
    /\ UNCHANGED <<v, y, last, r, line, lines, i, prev_y, out, drawn>>

\* ---- draw_frame ----
BeginFrame ==
    /\ pc = "draw"
    /\ lines' = <<>>
    /\ r' = 0
    /\ pc' = "decor"
    /\ UNCHANGED <<v, y, last, y_hist, line, i, prev_y, out, pushed, drawn>>

Decorate ==
    /\ pc = "decor"
    /\ r < H
    /\ line' = DecorateRow(r)
    /\ pc' = "grid"
    /\ UNCHANGED <<v, y, last, y_hist, r, lines, i, prev_y, out, pushed, drawn>>

Grid ==
    /\ pc = "grid"
    /\ line' = GridRow(r, line)
    /\ lines' = Append(lines, line')
    /\ r' = r + 1
    /\ i' = 0
    /\ prev_y' = <<>>
    /\ pc' = IF r + 1 < H THEN "decor" ELSE IF Len(y_hist) > 0 THEN "plot" ELSE "dump"
    /\ UNCHANGED <<v, y, last, y_hist, out, pushed, drawn>>

PlotPoint ==
    /\ pc = "plot"
    /\ i < Len(y_hist)
    /\ LET res == PlotStep(lines, i, y_hist[i + 1], prev_y)
       IN  IF res.ok
           THEN /\ lines' = res.g
                /\ prev_y' = <<y_hist[i + 1]>>
                /\ i' = i + 1
                /\ pc' = IF i + 1 < Len(y_hist) THEN "plot" ELSE "dump"
           ELSE /\ pc' = "failed"
                /\ UNCHANGED <<lines, prev_y, i>>
    /\ UNCHANGED <<v, y, last, y_hist, r, line, out, pushed, drawn>>

DumpFrame ==
    /\ pc = "dump"
    /\ out' = JoinRows(lines)
    /\ drawn' = <<y_hist>>
    /\ pc' = "sleep"
    /\ UNCHANGED <<v, y, last, y_hist, r, line, lines, i, prev_y, pushed>>

Sleep ==
    /\ pc = "sleep"
    /\ pc' = "read"
    /\ UNCHANGED <<v, y, last, y_hist, r, line, lines, i, prev_y, out, pushed, drawn>>

Init ==
    /\ pc = "read"
    /\ v = 0
    /\ y = 0
    /\ last = <<>>
    /\ y_hist = InitHistory
    /\ r = 0
    /\ line = <<>>
    /\ lines = <<>>
    /\ i = 0
    /\ prev_y = <<>>
    /\ out = <<>>
    /\ pushed = <<>>
    /\ drawn = <<>>

Next ==
    \/ ReadVoltage
    \/ MapRow
    \/ PushSample
    \/ BeginFrame
    \/ Decorate
    \/ Grid
    \/ PlotPoint
    \/ DumpFrame
    \/ Sleep

Spec == Init /\ [][Next]_vars

\* ---- harness for the mapper: feeds canned samples to v_to_row ----
VoltInputs == RawSignals

FeedSample ==
    /\ pc = "push"
    /\ last' = <<v, y>>
    /\ \E vv \in VoltInputs : v' = vv
    /\ pc' = "map"
    /\ UNCHANGED <<y, y_hist, r, line, lines, i, prev_y, out, pushed, drawn>>

InitMap ==
    /\ pc = "map"
    /\ v \in VoltInputs
    /\ y = 0
    /\ last = <<>>
    /\ y_hist = InitHistory
    /\ r = 0
    /\ line = <<>>
    /\ lines = <<>>
    /\ i = 0
    /\ prev_y = <<>>
    /\ out = <<>>
    /\ pushed = <<>>
    /\ drawn = <<>>

NextMap ==
    \/ MapRow
    \/ FeedSample

SpecMap == InitMap /\ [][NextMap]_vars

\* ---- harness for the renderer: draw_frame on arbitrary histories ----
TestRows == {0 - (H + 1), -1, 0, H - 1, H}

TestHistories == UNION {[1..n -> TestRows] : n \in Max(0, W - LenSlack)..(W + LenSlack)}

InitRender ==
    /\ pc = "draw"
    /\ v = 0
    /\ y = 0
    /\ last = <<>>
    /\ y_hist \in TestHistories
    /\ r = 0
    /\ line = <<>>
    /\ lines = <<>>
    /\ i = 0
    /\ prev_y = <<>>
    /\ out = <<>>
    /\ pushed = <<>>
    /\ drawn = <<>>

NextRender ==
    \/ BeginFrame
    \/ Decorate
    \/ Grid
    \/ PlotPoint
    \/ DumpFrame

SpecRender == InitRender /\ [][NextRender]_vars

\* ---- properties ----
ValidHistory(h) == Len(h) = W /\ \A k \in 1..Len(h) : h[k] \in 0..(H - 1)

Cell(g, row, col) == g[row + 1][col + 1]

OutCell(row, col) == out[row * (LEFT_MARGIN + W + 1) + col + 1]

PlotCols == LEFT_MARGIN..(LEFT_MARGIN + W - 1)

FrameDone == pc \in {"dump", "sleep"}

Scenario == [k \in 1..W |-> IF k < W THEN H \div 2 ELSE 0]

\* C1: in every state of the main loop the history holds exactly W entries,
\* each a row index in 0..H-1.
C1_HistoryInvariant ==
    /\ Len(y_hist) = W
    /\ \A k \in 1..Len(y_hist) : y_hist[k] \in 0..(H - 1)

C1_Witness ==
    /\ pc = "draw"
    /\ Len(pushed) = W
    /\ y_hist[1] = H - 1
    /\ y_hist[W] = 0

\* C2: after k <= W pushes r1..rk the last k entries are r1..rk in order and
\* the first W-k entries are still H/2; every push drops only entry 0, moves
\* every other entry one index towards 0 and puts the new row at index W-1.
C2_Prefix ==
    LET k == Len(pushed)
    IN  /\ k <= W
        /\ Len(y_hist) = W
        /\ \A j \in 1..k : y_hist[W - k + j] = pushed[j]
        /\ \A j \in 1..(W - k) : y_hist[j] = H \div 2

C2_Shift ==
    IF pc = "push"
    THEN /\ Len(y_hist') = Len(y_hist)
         /\ \A j \in 1..(Len(y_hist) - 1) : y_hist'[j] = y_hist[j + 1]
         /\ y_hist'[Len(y_hist)] = y
    ELSE y_hist' = y_hist

C2_FIFO == [] C2_Prefix /\ [][C2_Shift]_vars

C2_Witness ==
    /\ pc = "draw"
    /\ pushed = <<0, H - 1>>
    /\ y_hist[1] = H \div 2

\* C3 (as claimed): for every i in 1..W-1 every cell (yy, LEFT_MARGIN+i-1), yy
\* between history[i-1] and history[i] with both ends included, holds the
\* trace glyph after rendering.
C3_InclusiveConnector ==
    (FrameDone /\ ValidHistory(y_hist)) =>
        \A idx \in 1..(W - 1) :
            \A yy \in Min(y_hist[idx], y_hist[idx + 1])..Max(y_hist[idx], y_hist[idx + 1]) :
                Cell(lines, yy, LEFT_MARGIN + idx - 1) = "*"

\* C3 (amended): the connector runs from history[i-1], included, towards
\* history[i], excluded; for the history [H/2]*(W-1) + [0] the second-to-last
\* plot column holds the trace glyph on rows 1..H/2 and the rule glyph on row 0.
C3_HalfOpenConnector ==
    (FrameDone /\ ValidHistory(y_hist)) =>
        /\ \A idx \in 1..(W - 1) :
              \A yy \in Min(y_hist[idx], y_hist[idx + 1])..Max(y_hist[idx], y_hist[idx + 1]) :
                  (yy # y_hist[idx + 1] \/ yy = y_hist[idx]) =>
                      Cell(lines, yy, LEFT_MARGIN + idx - 1) = "*"
        /\ y_hist = Scenario =>
              /\ \A row \in 1..(H \div 2) : Cell(lines, row, LEFT_MARGIN + W - 2) = "*"
              /\ Cell(lines, 0, LEFT_MARGIN + W - 2) = "-"
              /\ \A row \in 0..(H - 1) :
                    Cell(lines, row, LEFT_MARGIN + W - 1) = "*" <=> row = 0

C3_Witness == pc = "dump" /\ y_hist = Scenario

\* C4: the trace glyph wins over grid and axis glyphs: the finished grid holds
\* the trace glyph at (history[i], LEFT_MARGIN+i) for every i, also on rows 0,
\* H/2 and H-1, and no plotting step replaces a trace glyph by another glyph.
C4_PointsDrawn ==
    (FrameDone /\ ValidHistory(y_hist)) =>
        \A idx \in 0..(W - 1) : Cell(lines, y_hist[idx + 1], LEFT_MARGIN + idx) = "*"

C4_Additive ==
    pc = "plot" =>
        /\ Len(lines') = Len(lines)
        /\ \A row \in 1..Len(lines) : \A col \in 1..Len(lines[row]) :
              lines[row][col] = "*" => lines'[row][col] = "*"

C4_TraceWins == [] C4_PointsDrawn /\ [][C4_Additive]_vars

C4_Witness ==
    /\ pc = "dump"
    /\ {0, H \div 2, H - 1} \subseteq {y_hist[k] : k \in 1..Len(y_hist)}

\* C5: the frame has exactly H rows of exactly LEFT_MARGIN+W characters, and
\* writing an axis label into a row leaves the row's length unchanged.
C5_FrameDimensions ==
    /\ pc = "grid" => Len(line) = LEFT_MARGIN + W
    /\ (FrameDone /\ ValidHistory(y_hist)) =>
          /\ Len(lines) = H
          /\ \A row \in 1..Len(lines) : Len(lines[row]) = LEFT_MARGIN + W
    /\ (pc = "sleep" /\ ValidHistory(y_hist)) =>
          /\ Len(out) = H * (LEFT_MARGIN + W + 1)
          /\ \A k \in 1..Len(out) : out[k] = "\n" <=> k % (LEFT_MARGIN + W + 1) = 0

C5_Witness ==
    /\ pc = "grid"
    /\ r = H \div 2
    /\ SubSeq(line, 1, 5) = <<" ", "2", ".", "5", "|">>

\* C6: with the grid enabled every plot-area cell without the trace glyph is
\* the rule glyph on rows 0 and H-1, the dotted glyph on row H/2 and blank
\* elsewhere; the grid step changes no margin cell; an all-midpoint history
\* shows the trace glyph across row H/2 and the rule glyph across rows 0, H-1.
C6_Background ==
    (FrameDone /\ ValidHistory(y_hist)) =>
        /\ \A row \in 0..(H - 1) : \A col \in PlotCols :
              Cell(lines, row, col) # "*" =>
                  Cell(lines, row, col) =
                      (IF row = 0 \/ row = H - 1 THEN "-"
                       ELSE IF row = H \div 2 THEN "." ELSE " ")
        /\ y_hist = InitHistory =>
              \A col \in PlotCols :
                  /\ Cell(lines, H \div 2, col) = "*"
                  /\ Cell(lines, 0, col) = "-"
                  /\ Cell(lines, H - 1, col) = "-"

C6_MarginKept ==
    pc = "grid" =>
        /\ Len(line') = Len(line)
        /\ \A col \in 1..LEFT_MARGIN : line'[col] = line[col]

C6_Grid == [] C6_Background /\ [][C6_MarginKept]_vars

C6_Witness == pc = "dump" /\ y_hist = InitHistory

\* C7: v_to_row saturates: 0 maps to H-1, VREF_DISPLAY maps to 0, every
\* v < 0 maps to the row of 0, every v > VREF_DISPLAY to the row of
\* VREF_DISPLAY, and the result is always in 0..H-1.
C7_Saturates ==
    pc = "push" =>
        /\ y \in 0..(H - 1)
        /\ v <= 0 => y = H - 1
        /\ v >= VREF_DISPLAY => y = 0

C7_Witness ==
    /\ pc = "push"
    /\ v = VREF_DISPLAY + RawSlack
    /\ y = 0
    /\ last = <<0 - RawSlack, H - 1>>

\* C8: v_to_row is monotone non-increasing on [0, VREF_DISPLAY], also at the
\* half-way points where rounding decides between two adjacent rows.
C8_Monotone ==
    (pc = "push" /\ last # <<>>) =>
        ((0 <= last[1] /\ last[1] < v /\ v <= VREF_DISPLAY) => last[2] >= y)

IsTie(vv) == (2 * (VREF_DISPLAY - vv) * (H - 1)) % (2 * VREF_DISPLAY) = VREF_DISPLAY

C8_Witness ==
    /\ pc = "push"
    /\ last # <<>>
    /\ 0 <= last[1]
    /\ v <= VREF_DISPLAY
    /\ v = last[1] + 1
    /\ IsTie(last[1])
    /\ last[2] = y + 1

\* C9 (as claimed): a frame is emitted only for a history of exactly W rows,
\* each in 0..H-1; every other history ends in a failure.
C9_LoudViolation == pc = "sleep" => ValidHistory(y_hist)

\* C9 (amended): a history that holds an in-range row at an index >= W (every
\* longer history of valid rows) ends in a failure and emits no frame.
C9_OverlongFails ==
    /\ (\E k \in (W + 1)..Len(y_hist) : y_hist[k] \in 0..(H - 1)) => ~FrameDone
    /\ pc = "failed" => out = <<>>

C9_Witness ==
    /\ pc = "failed"
    /\ Len(y_hist) > W
    /\ \A k \in 1..Len(y_hist) : y_hist[k] \in 0..(H - 1)

\* C10: every frame is rendered after the push of the sample read in the same
\* iteration: its rightmost plot column holds the trace glyph at that sample's
\* row and at no other row, and from one frame to the next the history has
\* advanced by exactly one sample.
C10_NewestShown ==
    pc = "sleep" =>
        /\ y_hist[Len(y_hist)] = y
        /\ \A row \in 0..(H - 1) :
              OutCell(row, LEFT_MARGIN + W - 1) = "*" <=> row = y

C10_OneSample ==
    (pc = "dump" /\ pc' = "sleep") =>
        y_hist = Append(Tail(IF drawn = <<>> THEN InitHistory ELSE drawn[1]), y)

C10_FramePerSample == [] C10_NewestShown /\ [][C10_OneSample]_vars

C10_Witness ==
    /\ pc = "sleep"
    /\ drawn # <<>>
    /\ y = 0
    /\ y_hist[W - 1] = H - 1

====
